---- MODULE Spec2Model ----
(***************************************************************************)
(* getSQLServerDiagnostics: a report generator that reads a catalog of    *)
(* named SQL statements, runs each against SQL Server and renders the     *)
(* results into one workbook.  The repository holds three revisions of    *)
(* the same pipeline:                                                     *)
(*   "csv"    src/unnamed/part_001   one CSV file per query, no workbook  *)
(*   "merge"  src/golang/getSQLServerDiagnostics/app.go                   *)
(*                                   CSV staging files merged into a      *)
(*                                   workbook by createExcelFromCSV       *)
(*   "direct" src/unnamed/part_000   results written straight into the    *)
(*                                   workbook's sheets                    *)
(* Strings are sequences of one-character strings, so that len(), slicing *)
(* and the regular-expression passes are computed as the Go code does.    *)
(***************************************************************************)
EXTENDS Integers, Sequences, FiniteSets, TLC

VARIABLES
    mode,        \* which specification is running: "pipeline", "sanitize", "render", "main"
    rev,         \* the revision being run: "csv", "merge" or "direct"
    pc,          \* position of the run in its program
    \* ---- name sanitizer (createSheetName / createFileName) ----
    index,       \* argument index
    queryName,   \* argument queryName
    sheetName,   \* result of createSheetName(index, queryName)
    fileName,    \* result of createFileName(index, queryName)
    reSheetName, \* result of createSheetName(index, sheetName)
    reFileName,  \* result of createFileName(index, fileName)
    \* ---- value rendering ----
    value,       \* one scanned column value
    rendered,    \* the text written for it
    \* ---- one run of the pipeline ----
    queries,     \* the catalog returned by readQueries
    i,           \* number of catalog entries processed by the query loop
    dbOpen,      \* the database connection is open
    f,           \* the workbook in memory: sequence of sheets
    files,       \* the staging directory: set of CSV files
    idxBuf,      \* records written to executed_queries.csv and not flushed yet
    sortedFiles, \* createExcelFromCSV: the staging files in merge order
    m,           \* createExcelFromCSV: number of staging files processed
    saved,       \* the workbook file on disk, NoWorkbook before it is saved
    log,         \* messages logged or printed so far
    faults,      \* number of failures the environment has produced so far
    unitNames,   \* history: the names computed for the output units, in order
    accepted,    \* history: positions whose statement db.Query accepted
    skipped,     \* history: staging files the merge could not read
    rowsOpen,    \* the result cursor of the last query issued is not closed
    configReads, \* history: number of times the configuration was read
    connects,    \* history: number of database connections opened
    issued,      \* history: number of statements handed to db.Query
    \* ---- main of the final revision ----
    interval,       \* flag -interval, minutes
    duration,       \* flag -duration, hours
    confirmation,   \* the line the operator typed at the prompt
    iteration,      \* loop variable i of main's repeat loop
    runs,           \* history: calls of executeSQLQueriesAndCreateExcel
    sleeps,         \* history: calls of time.Sleep
    \* ---- working directory ----
    outcomes,       \* history: what the environment did to each query issued
    cwd,            \* the working directory of the process: "orig" or "temp"
    originalDir,    \* the directory os.Getwd() returned to the running function
    savedIn,        \* the directory the workbook was saved in, "none" before
    \* ---- getSQLServerConfig ----
    props,          \* the properties file: the value of each key, or Missing
    sqlServerConfig \* the SQLServerConfig returned

sanVars == <<index, queryName, sheetName, fileName, reSheetName, reFileName>>
renVars == <<value, rendered>>
runVars == <<queries, i, dbOpen, f, files, idxBuf, sortedFiles, m, saved, log,
             faults, unitNames, accepted, skipped, rowsOpen, configReads, connects,
             issued, outcomes>>
mainVars == <<interval, duration, confirmation, iteration, runs, sleeps>>
dirVars == <<cwd, originalDir, savedIn>>
cfgVars == <<props, sqlServerConfig>>
vars == <<mode, rev, pc, sanVars, renVars, runVars, mainVars, dirVars, cfgVars>>

(***************************************************************************)
(* Characters and strings                                                  *)
(***************************************************************************)
Str0 == <<>>

Digits == <<"0", "1", "2", "3", "4", "5", "6", "7", "8", "9">>

DigitChars == {Digits[k] : k \in 1..Len(Digits)}

LowerChars ==
    {"a", "b", "c", "d", "e", "f", "g", "h", "i", "j", "k", "l", "m",
     "n", "o", "p", "q", "r", "s", "t", "u", "v", "w", "x", "y", "z"}

UpperChars ==
    {"A", "B", "C", "D", "E", "F", "G", "H", "I", "J", "K", "L", "M",
     "N", "O", "P", "Q", "R", "S", "T", "U", "V", "W", "X", "Y", "Z"}

\* The printable ASCII characters in code order, starting at the space (32);
\* the grave accent (96) is never used and only keeps its place.
AsciiPrintable ==
    <<" ", "!", "\"", "#", "$", "%", "&", "'", "(", ")", "*", "+", ",", "-",
      ".", "/", "0", "1", "2", "3", "4", "5", "6", "7", "8", "9", ":", ";",
      "<", "=", ">", "?", "@", "A", "B", "C", "D", "E", "F", "G", "H", "I",
      "J", "K", "L", "M", "N", "O", "P", "Q", "R", "S", "T", "U", "V", "W",
      "X", "Y", "Z", "[", "\\", "]", "^", "_", "<grave>", "a", "b", "c", "d", "e",
      "f", "g", "h", "i", "j", "k", "l", "m", "n", "o", "p", "q", "r", "s",
      "t", "u", "v", "w", "x", "y", "z", "{", "|", "}", "~">>

LF == "\n"

CR == "\r"

\* The byte value of a character.
Code(c) ==
    IF c = LF THEN 10
    ELSE IF c = CR THEN 13
    ELSE 31 + (CHOOSE k \in 1..Len(AsciiPrintable) : AsciiPrintable[k] = c)

\* Go's string comparison a < b: bytewise, a proper prefix is smaller.
RECURSIVE StrLess(_, _)
StrLess(a, b) ==
    IF b = Str0 THEN FALSE
    ELSE IF a = Str0 THEN TRUE
    ELSE IF Head(a) = Head(b) THEN StrLess(Tail(a), Tail(b))
    ELSE Code(Head(a)) < Code(Head(b))

\* strings.ReplaceAll(s, old, new) for a one-character old and new.
ReplaceAll(s, old, new) == [k \in 1..Len(s) |-> IF s[k] = old THEN new ELSE s[k]]

\* regexp `[class]+` with ReplaceAllString(s, ""): every character of the
\* class is removed.
RECURSIVE RemoveClass(_, _)
RemoveClass(s, class) ==
    IF s = Str0 THEN Str0
    ELSE IF Head(s) \in class THEN RemoveClass(Tail(s), class)
    ELSE <<Head(s)>> \o RemoveClass(Tail(s), class)

\* Go slice s[:n].
SliceTo(s, n) == SubSeq(s, 1, n)

\* strings.HasSuffix / strings.TrimSuffix
HasSuffix(s, suf) ==
    /\ Len(s) >= Len(suf)
    /\ SubSeq(s, Len(s) - Len(suf) + 1, Len(s)) = suf

TrimSuffix(s, suf) == IF HasSuffix(s, suf) THEN SliceTo(s, Len(s) - Len(suf)) ELSE s

\* strconv.Itoa and the %d verb: the decimal text of an integer.
RECURSIVE Itoa(_)
Itoa(n) ==
    IF n < 0 THEN <<"-">> \o Itoa(0 - n)
    ELSE IF n < 10 THEN <<Digits[n + 1]>>
    ELSE Itoa(n \div 10) \o <<Digits[(n % 10) + 1]>>

DigitValue(c) == (CHOOSE k \in 1..Len(Digits) : Digits[k] = c) - 1

RECURSIVE DecimalValue(_)
DecimalValue(s) ==
    IF s = Str0 THEN 0
    ELSE 10 * DecimalValue(SliceTo(s, Len(s) - 1)) + DigitValue(s[Len(s)])

\* strconv.Atoi: an optional sign followed by one or more decimal digits.
Atoi(s) ==
    LET signed == s # Str0 /\ Head(s) \in {"+", "-"}
        body == IF signed THEN Tail(s) ELSE s
        ok == body # Str0 /\ \A k \in 1..Len(body) : body[k] \in DigitChars
    IN  [ok |-> ok,
         n |-> IF ~ok THEN 0
               ELSE IF signed /\ Head(s) = "-" THEN 0 - DecimalValue(body)
               ELSE DecimalValue(body)]

\* strings.SplitN(s, "_", 2)[0]: the text before the first underscore.
RECURSIVE BeforeUnderscore(_)
BeforeUnderscore(s) ==
    IF s = Str0 \/ Head(s) = "_" THEN Str0
    ELSE <<Head(s)>> \o BeforeUnderscore(Tail(s))

(***************************************************************************)
(* Name sanitizer                                                          *)
(***************************************************************************)
\* The 31-character limit of a worksheet name.
MaxSheetNameLen == 31

\* The class [\\\/\?\*\[\]:] of createSheetName.
ExcelInvalidChars == {"\\", "/", "?", "*", "[", "]", ":"}

\* The characters kept by the class [^a-zA-Z0-9_].
WordChars == LowerChars \cup UpperChars \cup DigitChars \cup {"_"}

NonWordChars == ({AsciiPrintable[k] : k \in 1..Len(AsciiPrintable)} \cup {LF, CR}) \ WordChars

DotCsv == <<".", "c", "s", "v">>

\* sanitizedQueryName with the regular-expression passes run on the raw name:
\* the spaces are stripped instead of becoming underscores.
sanitizedQueryName_dropSpaces(name) ==
    RemoveClass(RemoveClass(name, ExcelInvalidChars), NonWordChars)

\* createSheetName up to the concatenation: spaces to underscores, then the
\* two regular-expression passes.
sanitizedQueryName(name) ==
    RemoveClass(RemoveClass(ReplaceAll(name, " ", "_"), ExcelInvalidChars), NonWordChars)

\* createSheetName with the truncation one character short.
createSheetName_offByOne(idx, name) ==
    LET q == sanitizedQueryName(name)
        full == Itoa(idx) \o <<"_">> \o q
        indexPart == Itoa(idx) \o <<"_">>
        maxNameLength == MaxSheetNameLen - Len(indexPart) - 1
    IN  IF Len(full) > MaxSheetNameLen
        THEN IF maxNameLength > 0
             THEN indexPart \o SliceTo(q, maxNameLength)
             ELSE IF Len(Itoa(idx)) > MaxSheetNameLen
                  THEN SliceTo(Itoa(idx), MaxSheetNameLen)
                  ELSE Itoa(idx)
        ELSE full

\* createSheetName with the truncation applied to the name alone: the
\* position prefix is lost.
createSheetName_prefixLost(idx, name) ==
    LET q == sanitizedQueryName(name)
        full == Itoa(idx) \o <<"_">> \o q
    IN  IF Len(full) > MaxSheetNameLen THEN SliceTo(q, MaxSheetNameLen) ELSE full

\* indexPart of createSheetName: the position and the underscore.
indexPart(idx) == Itoa(idx) \o <<"_">>

\* maxNameLength with two characters too many.
maxNameLength_tooLong(idx) == MaxSheetNameLen + 2 - Len(indexPart(idx))

\* maxNameLength of createSheetName: the room left for the name.
maxNameLength(idx) == MaxSheetNameLen - Len(indexPart(idx))

createSheetName(idx, name) ==
    LET q == sanitizedQueryName(name)
        full == Itoa(idx) \o <<"_">> \o q
    IN  IF Len(full) > MaxSheetNameLen
        THEN IF maxNameLength(idx) > 0
             THEN indexPart(idx) \o SliceTo(q, maxNameLength(idx))
             ELSE IF Len(Itoa(idx)) > MaxSheetNameLen
                  THEN SliceTo(Itoa(idx), MaxSheetNameLen)
                  ELSE Itoa(idx)
        ELSE full

\* createFileName without the regular-expression pass.
createFileName_noStrip(idx, name) ==
    Itoa(idx) \o <<"_">> \o ReplaceAll(name, " ", "_") \o DotCsv

createFileName(idx, name) ==
    Itoa(idx) \o <<"_">> \o RemoveClass(ReplaceAll(name, " ", "_"), NonWordChars) \o DotCsv

\* createExcelFromCSV names a sheet after its staging file.
mergeSheetName(csvFile) == TrimSuffix(csvFile, DotCsv)

(***************************************************************************)
(* Scanned values and their text                                           *)
(***************************************************************************)
\* A column value as rows.Scan stores it in an interface{}: nil for a NULL,
\* []byte, string, or another scalar (an integer here).  s is the text of
\* a string or the bytes of a []byte, n the integer.
NilValue == [kind |-> "nil", s |-> Str0, n |-> 0]

RECURSIVE JoinCodes(_)
JoinCodes(b) ==
    IF b = Str0 THEN Str0
    ELSE IF Len(b) = 1 THEN Itoa(Code(b[1]))
    ELSE Itoa(Code(Head(b))) \o <<" ">> \o JoinCodes(Tail(b))

\* fmt.Sprintf("%v", v)
Sprintv(v) ==
    CASE v.kind = "nil" -> <<"<", "n", "i", "l", ">">>
      [] v.kind = "bytes" -> <<"[">> \o JoinCodes(v.s) \o <<"]">>
      [] v.kind = "string" -> v.s
      [] v.kind = "int" -> Itoa(v.n)

\* renderCell with the carriage return forgotten.
renderCell_keepCR(v) ==
    IF v.kind = "nil" THEN <<"N", "U", "L", "L">>
    ELSE IF v.kind = "bytes" THEN ReplaceAll(v.s, LF, " ")
    ELSE ReplaceAll(Sprintv(v), LF, " ")

\* The value-to-text branch of executeQueryToExcel and of executeQuery in the
\* merge revision.
renderCell(v) ==
    IF v.kind = "nil" THEN <<"N", "U", "L", "L">>
    ELSE IF v.kind = "bytes" THEN ReplaceAll(ReplaceAll(v.s, LF, " "), CR, " ")
    ELSE ReplaceAll(ReplaceAll(Sprintv(v), LF, " "), CR, " ")

\* The same step in executeQuery of the csv revision.
renderCellCsv(v) == ReplaceAll(ReplaceAll(Sprintv(v), LF, " "), CR, " ")

renderFor(r, v) == IF r = "csv" THEN renderCellCsv(v) ELSE renderCell(v)

(***************************************************************************)
(* Inputs of the sanitizer                                                 *)
(***************************************************************************)
\* Longest raw name enumerated exhaustively.
MaxNameLen == 2

\* Long names are enumerated with lengths within Slack of the 31 limit.
Slack == 3

\* Positions 1..MaxIndex are enumerated, and one position of several digits.
MaxIndex == 11

NameChars == {"a", "Z", "7", "_", " ", "!", "/", "."}

RECURSIVE StringsUpTo(_, _)
StringsUpTo(chars, n) ==
    IF n = 0 THEN {Str0}
    ELSE LET shorter == StringsUpTo(chars, n - 1)
         IN  shorter \cup {s \o <<c>> : s \in shorter, c \in chars}

Repeat(c, n) == [k \in 1..n |-> c]

ShortNames == StringsUpTo(NameChars, MaxNameLen)

LongNames ==
    {pre \o Repeat("q", n) \o suf :
        pre \in StringsUpTo(NameChars, 1),
        suf \in StringsUpTo(NameChars, 1),
        n \in (MaxSheetNameLen - Slack)..(MaxSheetNameLen + Slack)}

\* The example of the documentation of createSheetName and createFileName.
SampleQueryName ==
    <<"S", "a", "m", "p", "l", "e", " ", "Q", "u", "e", "r", "y", " ",
      "N", "a", "m", "e", "!">>

RawNames == ShortNames \cup LongNames \cup {SampleQueryName}

Positions == (1..MaxIndex) \cup {MaxIndex * MaxIndex * MaxIndex}

None == <<"<none>">>

\* No workbook file: a workbook has at least one sheet.
NoWorkbook == <<>>

\* The variables of the specifications that are not running keep these values.
SanitizeIdle ==
    /\ index = 1
    /\ queryName = Str0
    /\ sheetName = None
    /\ fileName = None
    /\ reSheetName = None
    /\ reFileName = None

RenderIdle ==
    /\ value = NilValue
    /\ rendered = None

RunIdle ==
    /\ queries = <<>>
    /\ i = 0
    /\ dbOpen = FALSE
    /\ f = <<>>
    /\ files = {}
    /\ idxBuf = <<>>
    /\ sortedFiles = <<>>
    /\ m = 0
    /\ saved = NoWorkbook
    /\ log = {}
    /\ faults = 0
    /\ unitNames = <<>>
    /\ accepted = {}
    /\ skipped = {}
    /\ rowsOpen = FALSE
    /\ configReads = 0
    /\ connects = 0
    /\ issued = 0
    /\ outcomes = <<>>

MainIdle ==
    /\ interval = 0
    /\ duration = 0
    /\ confirmation = Str0
    /\ iteration = 0
    /\ runs = 0
    /\ sleeps = 0

DirIdle ==
    /\ cwd = "orig"
    /\ originalDir = "orig"
    /\ savedIn = "none"

\* A key the properties file does not hold.
Missing == <<"<missing>">>

\* A properties file: whether it can be loaded, and the value of each key.
Properties(loaded, userDefined, host, port, name, user, password, trusted) ==
    [loaded |-> loaded, USER_DEFINED |-> userDefined, DB_HOST |-> host, DB_PORT |-> port,
     DB_NAME |-> name, USER |-> user, PASSWORD |-> password, TRUSTED |-> trusted]

\* No SQLServerConfig: getSQLServerConfig has not returned.
NoConfig == [returned |-> FALSE]

ConfigIdle ==
    /\ props = Properties(FALSE, Missing, Missing, Missing, Missing, Missing, Missing, Missing)
    /\ sqlServerConfig = NoConfig

InitSanitize ==
    /\ mode = "sanitize"
    /\ rev = "direct"
    /\ pc = "call"
    /\ index \in Positions
    /\ queryName \in RawNames
    /\ sheetName = None
    /\ fileName = None
    /\ reSheetName = None
    /\ reFileName = None
    /\ RenderIdle
    /\ RunIdle
    /\ MainIdle
    /\ DirIdle
    /\ ConfigIdle

\* Both variants are applied to the same arguments.
Sanitize ==
    /\ mode = "sanitize"
    /\ pc = "call"
    /\ sheetName' = createSheetName(index, queryName)
    /\ fileName' = createFileName(index, queryName)
    /\ pc' = "reapply"
    /\ UNCHANGED <<mode, rev, index, queryName, reSheetName, reFileName, renVars, runVars, mainVars, dirVars, cfgVars>>

\* Each variant is applied again to its own output, with the same position.
Resanitize ==
    /\ mode = "sanitize"
    /\ pc = "reapply"
    /\ reSheetName' = createSheetName(index, sheetName)
    /\ reFileName' = createFileName(index, fileName)
    /\ pc' = "returned"
    /\ UNCHANGED <<mode, rev, index, queryName, sheetName, fileName, renVars, runVars, mainVars, dirVars, cfgVars>>

NextSanitize == Sanitize \/ Resanitize

SpecSanitize == InitSanitize /\ [][NextSanitize]_vars

(***************************************************************************)
(* Value rendering                                                         *)
(***************************************************************************)
Revisions == {"csv", "merge", "direct"}

\* Longest text or binary value enumerated.
MaxValueLen == 3

\* Integers -MaxInt..MaxInt are enumerated.
MaxInt == 12

ValueChars == {"a", " ", LF, CR}

Values ==
    {NilValue}
    \cup {[kind |-> k, s |-> t, n |-> 0] :
            k \in {"string", "bytes"}, t \in StringsUpTo(ValueChars, MaxValueLen)}
    \cup {[kind |-> "int", s |-> Str0, n |-> z] : z \in (0 - MaxInt)..MaxInt}

InitRender ==
    /\ mode = "render"
    /\ rev \in Revisions
    /\ pc = "scanned"
    /\ value \in Values
    /\ rendered = None
    /\ SanitizeIdle
    /\ RunIdle
    /\ MainIdle
    /\ DirIdle
    /\ ConfigIdle

\* One scanned value is turned into the text of its cell or CSV field.
RenderValue ==
    /\ mode = "render"
    /\ pc = "scanned"
    /\ rendered' = renderFor(rev, value)
    /\ pc' = "rendered"
    /\ UNCHANGED <<mode, rev, value, sanVars, runVars, mainVars, dirVars, cfgVars>>

NextRender == RenderValue

SpecRender == InitRender /\ [][NextRender]_vars

(***************************************************************************)
(* The workbook writer (excelize), as far as the program uses it           *)
(***************************************************************************)
\* A sheet is [name, rows, src]: rows is the sequence of its rows of cell
\* texts; src is history, the catalog position the sheet was created for
\* (0 for the index unit, -1 for the sheet a new workbook starts with).
Sheet1 == <<"S", "h", "e", "e", "t", "1">>

ExecutedQueriesSheet ==
    <<"e", "x", "e", "c", "u", "t", "e", "d", "_", "q", "u", "e", "r", "i", "e", "s">>

ToLower(c) == IF c \in UpperChars THEN AsciiPrintable[Code(c) + 1] ELSE c

\* strings.EqualFold, which excelize uses to find a sheet by name.
EqualFold(a, b) ==
    /\ Len(a) = Len(b)
    /\ \A k \in 1..Len(a) : ToLower(a[k]) = ToLower(b[k])

\* excelize.NewFile(): a workbook with the single sheet "Sheet1".
NewFile == <<[name |-> Sheet1, rows |-> <<>>, src |-> 0 - 1]>>

HasSheet(wb, name) == \E k \in 1..Len(wb) : EqualFold(wb[k].name, name)

\* The name check of NewSheet and SetSheetName: not blank, at most 31
\* characters, none of : \ / ? * [ ] and no quote at either end.
checkSheetName(name) ==
    /\ name # Str0
    /\ Len(name) <= MaxSheetNameLen
    /\ \A k \in 1..Len(name) : name[k] \notin ExcelInvalidChars
    /\ name[1] # "'"
    /\ name[Len(name)] # "'"

\* f.NewSheet(name): appends an empty sheet; returns an error, which the
\* program ignores, for a name that fails the check; does nothing when the
\* sheet exists.
NewSheet(wb, name, src) ==
    IF ~checkSheetName(name) \/ HasSheet(wb, name) THEN wb
    ELSE Append(wb, [name |-> name, rows |-> <<>>, src |-> src])

\* f.SetSheetName(source, target)
SetSheetName(wb, source, target, src) ==
    IF \/ ~checkSheetName(source)
       \/ ~checkSheetName(target)
       \/ source = target
       \/ HasSheet(wb, target)
    THEN wb
    ELSE [k \in 1..Len(wb) |->
            IF EqualFold(wb[k].name, source)
            THEN [name |-> target, rows |-> wb[k].rows, src |-> src]
            ELSE wb[k]]

Max(a, b) == IF a > b THEN a ELSE b

RECURSIVE TrimEmptyRows(_)
TrimEmptyRows(rows) ==
    IF rows # <<>> /\ rows[Len(rows)] = <<>>
    THEN TrimEmptyRows(SubSeq(rows, 1, Len(rows) - 1))
    ELSE rows

\* The cells of new written over the cells of old, row by row.
Overlay(old, new) ==
    [r \in 1..Max(Len(old), Len(new)) |->
        LET o == IF r <= Len(old) THEN old[r] ELSE <<>>
            w == IF r <= Len(new) THEN new[r] ELSE <<>>
        IN  [c \in 1..Max(Len(o), Len(w)) |-> IF c <= Len(w) THEN w[c] ELSE o[c]]]

\* f.SetCellValue(sheet, cell, text) for every cell of rows, rows[r][c] going
\* to column c of row r; an unknown sheet is an error the program ignores.
SetCells(wb, name, rows) ==
    [k \in 1..Len(wb) |->
        IF EqualFold(wb[k].name, name)
        THEN [name |-> wb[k].name,
              rows |-> TrimEmptyRows(Overlay(wb[k].rows, rows)),
              src |-> wb[k].src]
        ELSE wb[k]]

(***************************************************************************)
(* CSV files (encoding/csv)                                                *)
(***************************************************************************)
\* A staging file is [name, recs, src]: recs is the sequence of records
\* handed to csv.Writer.Write; src is history, as for a sheet.
ExecutedQueriesCsv == ExecutedQueriesSheet \o DotCsv

IndexHeader ==
    << <<"S", "r", ".", "N", "o">>,
       <<"Q", "u", "e", "r", "y">>,
       <<"Q", "u", "e", "r", "y", " ", "N", "o", "t", "e", "s">> >>

\* A quoted field is written with its line breaks as they are; the reader
\* drops a carriage return that precedes a line feed.
RECURSIVE CRLFtoLF(_)
CRLFtoLF(s) ==
    IF s = Str0 THEN Str0
    ELSE IF Len(s) >= 2 /\ s[1] = CR /\ s[2] = LF THEN <<LF>> \o CRLFtoLF(Tail(Tail(s)))
    ELSE <<Head(s)>> \o CRLFtoLF(Tail(s))

\* A record without fields, or with one empty field, is written as an empty
\* line, and the reader skips empty lines.
NotBlankRecord(rec) == rec # <<>> /\ rec # <<Str0>>

\* csv.NewReader(file).ReadAll() on what the writer wrote: every record must
\* have as many fields as the first one.
csvReadAll(recs) ==
    LET lines == SelectSeq(recs, NotBlankRecord)
        rows == [r \in 1..Len(lines) |->
                    [c \in 1..Len(lines[r]) |-> CRLFtoLF(lines[r][c])]]
    IN  [ok |-> \A r \in 1..Len(rows) : Len(rows[r]) = Len(rows[1]),
         rows |-> rows]

(***************************************************************************)
(* The database and the catalog                                            *)
(***************************************************************************)
IntValue(z) == [kind |-> "int", s |-> Str0, n |-> z]

TextValue(t) == [kind |-> "string", s |-> t, n |-> 0]

BytesValue(t) == [kind |-> "bytes", s |-> t, n |-> 0]

\* The statements of the catalogs, and what the database returns for each.
StmtX == <<"S", "E", "L", "E", "C", "T", " ", "5", " ", "X">>

StmtAB == <<"S", "E", "L", "E", "C", "T", CR, LF, "A", ",", "B">>

StmtE == <<"S", "E", "L", "E", "C", "T", " ", "E">>

StmtNone == <<"S", "E", "T", " ", "N">>

DBResult(stmt) ==
    CASE stmt = StmtX ->
            [cols |-> << <<"X">> >>, rows |-> << <<IntValue(5)>> >>]
      [] stmt = StmtAB ->
            [cols |-> << <<"A">>, <<"B">> >>,
             rows |-> << <<NilValue, BytesValue(<<"a", LF, "b">>)>>,
                         <<TextValue(<<"c", CR>>), IntValue(0 - 3)>> >>]
      [] stmt = StmtE ->
            [cols |-> << <<"E">> >>,
             rows |-> << <<TextValue(Str0)>>, <<TextValue(<<"v">>)>> >>]
      [] OTHER ->
            [cols |-> <<>>, rows |-> <<>>]

Query(name, stmt, notes) == [Name |-> name, Query |-> stmt, Notes |-> notes]

\* Catalog entries: an empty name, a name with a space and a forbidden
\* character, and two over-long names that differ only after 31 characters.
EntryList ==
    << Query(Str0, StmtE, Str0),
       Query(<<"a", " ", "b", "/">>, StmtAB, <<"n", LF>>),
       Query(Repeat("q", MaxSheetNameLen), StmtX, <<"n">>),
       Query(Repeat("q", MaxSheetNameLen) \o <<"r">>, StmtNone, Str0) >>

Entries == {EntryList[k] : k \in 1..Len(EntryList)}

\* Every catalog of at most MaxCatalog entries is enumerated.
MaxCatalog == 2

\* Length of the long catalogs, whose entries cycle through EntryList.
LongCatalogLen == 10

\* The environment produces at most MaxFaults failures in one run.
MaxFaults == 2

RECURSIVE SeqsUpTo(_, _)
SeqsUpTo(S, n) ==
    IF n = 0 THEN {<<>>}
    ELSE LET shorter == SeqsUpTo(S, n - 1)
         IN  shorter \cup {q \o <<e>> : q \in shorter, e \in S}

LongCatalog(off) ==
    [k \in 1..LongCatalogLen |-> EntryList[((k + off) % Len(EntryList)) + 1]]

Catalogs ==
    SeqsUpTo(Entries, MaxCatalog) \cup {LongCatalog(off) : off \in 1..Len(EntryList)}

\* A message logged or printed, and the name it carries, if any.
Logged(msg, name) == [msg |-> msg, name |-> name]

\* ScannedRows leaving an empty row where the scan failed.
RECURSIVE ScannedRows_blankRow(_, _, _, _)
ScannedRows_blankRow(rows, j, nread, bad) ==
    IF j > nread THEN <<>>
    ELSE (IF j \in bad THEN << <<>> >> ELSE <<rows[j]>>)
            \o ScannedRows_blankRow(rows, j + 1, nread, bad)

\* The rows 1..nread of a result that rows.Scan accepted, in result order.
RECURSIVE ScannedRows(_, _, _, _)
ScannedRows(rows, j, nread, bad) ==
    IF j > nread THEN <<>>
    ELSE (IF j \in bad THEN <<>> ELSE <<rows[j]>>) \o ScannedRows(rows, j + 1, nread, bad)

\* What the environment can do to one query: the statement is rejected
\* ("queryErr"), the column metadata is unavailable ("colErr"), or rows.Next
\* delivers nread rows, of which those in bad fail to scan, and rows.Err is
\* set iff iterErr.
Outcomes(res) ==
    {[out |-> "queryErr", nread |-> 0, bad |-> {}, iterErr |-> FALSE],
     [out |-> "colErr", nread |-> 0, bad |-> {}, iterErr |-> FALSE]}
    \cup {[out |-> "ok", nread |-> z, bad |-> b, iterErr |-> e] :
            z \in 0..Len(res.rows), b \in SUBSET (1..Len(res.rows)), e \in BOOLEAN}

OutcomeOk(res, o) ==
    /\ o.bad \subseteq 1..o.nread
    /\ o.nread < Len(res.rows) => o.iterErr

Cost(o) ==
    (IF o.out # "ok" \/ o.iterErr THEN 1 ELSE 0) + Cardinality(o.bad)

(***************************************************************************)
(* The direct revision: executeSQLQueriesAndCreateExcel                    *)
(***************************************************************************)
InitRun ==
    /\ mode = "pipeline"
    /\ rev \in Revisions
    /\ pc = "start"
    /\ queries \in Catalogs
    /\ i = 0
    /\ dbOpen = FALSE
    /\ f = <<>>
    /\ files = {}
    /\ idxBuf = <<>>
    /\ sortedFiles = <<>>
    /\ m = 0
    /\ saved = NoWorkbook
    /\ log = {}
    /\ faults = 0
    /\ unitNames = <<>>
    /\ accepted = {}
    /\ skipped = {}
    /\ rowsOpen = FALSE
    /\ configReads = 0
    /\ connects = 0
    /\ issued = 0
    /\ outcomes = <<>>
    /\ SanitizeIdle
    /\ RenderIdle
    /\ MainIdle
    /\ DirIdle
    /\ ConfigIdle

\* executeSQLQueriesAndCreateExcel is called by main, or run on its own.
RunMode == mode \in {"pipeline", "main"}

\* The rows of the executed_queries sheet: the header, then position,
\* statement and notes of every catalog entry.
indexRows(qs) ==
    <<IndexHeader>> \o [k \in 1..Len(qs) |-> <<Itoa(k), qs[k].Query, qs[k].Notes>>]

\* How the start of a run can end: readSQLConfig, connectToDB, readQueries or
\* os.Remove of an existing workbook file calls log.Fatalf, or none does.
BeginOutcomes == {"ok", "configErr", "connectErr", "catalogErr", "removeErr"}

\* Configuration, connection and catalog are read, the workbook is created
\* and the executed_queries sheet is filled.  log.Fatalf ends the process
\* without running the deferred db.Close().
DirectBegin ==
    /\ RunMode
    /\ rev = "direct"
    /\ pc = "start"
    /\ runs' = runs + 1
    /\ configReads' = configReads + 1
    /\ \E o \in BeginOutcomes :
         /\ o # "ok" => faults < MaxFaults
         /\ faults' = IF o = "ok" THEN faults ELSE faults + 1
         /\ connects' = IF o \in {"configErr", "connectErr"} THEN connects ELSE connects + 1
         /\ dbOpen' = (o \notin {"configErr", "connectErr"})
         /\ IF o = "ok"
            THEN /\ f' = SetCells(SetSheetName(NewFile, Sheet1, ExecutedQueriesSheet, 0),
                                  ExecutedQueriesSheet, indexRows(queries))
                 /\ unitNames' = <<ExecutedQueriesSheet>>
                 /\ pc' = "loop"
                 /\ log' = log
            ELSE /\ pc' = "fatal"
                 /\ log' = log \cup {Logged(o, Str0)}
                 /\ UNCHANGED <<f, unitNames>>
    /\ UNCHANGED <<mode, rev, queries, i, files, idxBuf, sortedFiles, m, saved,
                   accepted, skipped, rowsOpen, issued, sanVars, renVars,
                   interval, duration, confirmation, iteration, sleeps,
                   outcomes, dirVars, cfgVars>>

renderRow(row) == [c \in 1..Len(row) |-> renderCell(row[c])]

\* executeQueryToExcel creating the sheet only after the column names.
executeQueryToExcel_sheetAfterColumns(wb, stmt, name, src, o) ==
    LET res == DBResult(stmt)
        created == NewSheet(wb, name, src)
        scanned == ScannedRows(res.rows, 1, o.nread, o.bad)
        data == [r \in 1..Len(scanned) |-> renderRow(scanned[r])]
    IN  IF o.out \in {"queryErr", "colErr"} THEN [wb |-> wb, err |-> TRUE, open |-> FALSE]
        ELSE [wb |-> SetCells(created, name, <<res.cols>> \o data), err |-> o.iterErr,
              open |-> FALSE]

\* executeQueryToExcel(db, query, f, sheetName) under outcome o; the result
\* is the workbook, whether an error is returned, and whether the cursor is
\* still open at the return: the deferred rows.Close() runs on every return
\* that follows a successful db.Query.
executeQueryToExcel(wb, stmt, name, src, o) ==
    LET res == DBResult(stmt)
        created == NewSheet(wb, name, src)
        scanned == ScannedRows(res.rows, 1, o.nread, o.bad)
        data == [r \in 1..Len(scanned) |-> renderRow(scanned[r])]
    IN  IF o.out = "queryErr" THEN [wb |-> wb, err |-> TRUE, open |-> FALSE]
        ELSE IF o.out = "colErr" THEN [wb |-> created, err |-> TRUE, open |-> FALSE]
        ELSE [wb |-> SetCells(created, name, <<res.cols>> \o data), err |-> o.iterErr,
              open |-> FALSE]

\* One iteration of the query loop of executeSQLQueriesAndCreateExcel.
DirectExecQuery ==
    /\ RunMode
    /\ rev = "direct"
    /\ pc = "loop"
    /\ i < Len(queries)
    /\ \E o \in Outcomes(DBResult(queries[i + 1].Query)) :
         LET query == queries[i + 1]
             name == createSheetName(i + 1, query.Name)
             r == executeQueryToExcel(f, query.Query, name, i + 1, o)
         IN  /\ OutcomeOk(DBResult(query.Query), o)
             /\ faults + Cost(o) <= MaxFaults
             /\ outcomes' = Append(outcomes, o)
             /\ faults' = faults + Cost(o)
             /\ f' = r.wb
             /\ rowsOpen' = r.open
             /\ unitNames' = Append(unitNames, name)
             /\ accepted' = IF o.out = "queryErr" THEN accepted ELSE accepted \cup {i + 1}
             /\ log' = log
                  \cup (IF o.bad # {} THEN {Logged("Failed to scan row", Str0)} ELSE {})
                  \cup (IF r.err THEN {Logged("Failed to execute query", query.Name)} ELSE {})
    /\ i' = i + 1
    /\ issued' = issued + 1
    /\ UNCHANGED <<mode, rev, pc, queries, dbOpen, files, idxBuf, sortedFiles, m, saved,
                   skipped, configReads, connects, sanVars, renVars, mainVars,
                   dirVars, cfgVars>>

\* f.SaveAs(excelFileName) after the loop: the run ends, with log.Fatalf when
\* the save fails; the deferred db.Close() runs on the normal return only.
DirectSave ==
    /\ RunMode
    /\ rev = "direct"
    /\ pc = "loop"
    /\ i = Len(queries)
    /\ \E ok \in BOOLEAN :
         IF ok
         THEN /\ saved' = f
              /\ savedIn' = cwd
              /\ dbOpen' = FALSE
              /\ log' = log \cup {Logged("Excel file created successfully", Str0)}
              /\ pc' = "done"
              /\ faults' = faults
         ELSE /\ faults < MaxFaults
              /\ faults' = faults + 1
              /\ log' = log \cup {Logged("Error saving Excel file", Str0)}
              /\ pc' = "fatal"
              /\ UNCHANGED <<saved, savedIn, dbOpen>>
    /\ UNCHANGED <<mode, rev, queries, i, f, files, idxBuf, sortedFiles, m, unitNames,
                   accepted, skipped, rowsOpen, configReads, connects, issued,
                   sanVars, renVars, mainVars,
                   outcomes, cwd, originalDir, cfgVars>>

NextDirect == DirectBegin \/ DirectExecQuery \/ DirectSave

(***************************************************************************)
(* The merge revision: executeSQLQueries, then createExcelFromCSV          *)
(***************************************************************************)
File(name, recs, src) == [name |-> name, recs |-> recs, src |-> src]

\* os.Create(name): the file is created, or emptied when it exists.
WriteFile(dir, file) == {g \in dir : g.name # file.name} \cup {file}

IndexFile(recs) == File(ExecutedQueriesCsv, recs, 0)

\* The prefixes of the buffered index records that can have reached the
\* file when log.Fatalf ends the process without running the deferred Flush.
FlushedPrefixes(buf) == {SubSeq(buf, 1, z) : z \in 0..Len(buf)}

\* executeSQLQueries up to the query loop: connection, catalog, change to the
\* temporary directory, executed_queries.csv created and its header written.
MergeBegin ==
    /\ mode = "pipeline"
    /\ rev = "merge"
    /\ pc = "start"
    /\ dbOpen' = TRUE
    /\ originalDir' = cwd
    /\ cwd' = "temp"
    /\ configReads' = configReads + 1
    /\ connects' = connects + 1
    /\ files' = WriteFile(files, IndexFile(<<>>))
    /\ idxBuf' = <<IndexHeader>>
    /\ unitNames' = <<ExecutedQueriesCsv>>
    /\ pc' = "loop"
    /\ UNCHANGED <<mode, rev, queries, i, f, sortedFiles, m, saved, log, faults,
                   accepted, skipped, rowsOpen, issued, sanVars, renVars, mainVars,
                   outcomes, savedIn, cfgVars>>

\* What the environment can do to one query that writes a staging file:
\* as Outcomes, or os.Create of the staging file fails ("createErr").
FileOutcomes(res) ==
    Outcomes(res) \cup {[out |-> "createErr", nread |-> 0, bad |-> {}, iterErr |-> FALSE]}

\* executeQuery(db, query, fileName) of the merge revision under outcome o:
\* whether log.Fatalf ends the process, the records of the CSV file, and
\* whether the cursor is still open when the function or the process ends:
\* log.Fatalf after a successful db.Query skips the deferred rows.Close().
executeQuery(stmt, o) ==
    LET res == DBResult(stmt)
        scanned == ScannedRows(res.rows, 1, o.nread, o.bad)
        data == [r \in 1..Len(scanned) |-> renderRow(scanned[r])]
    IN  IF o.out = "queryErr" THEN [fatal |-> TRUE, recs |-> <<>>, open |-> FALSE]
        ELSE IF o.out = "createErr" THEN [fatal |-> TRUE, recs |-> <<>>, open |-> TRUE]
        ELSE IF o.out = "colErr" THEN [fatal |-> FALSE, recs |-> <<>>, open |-> FALSE]
        ELSE [fatal |-> FALSE, recs |-> <<res.cols>> \o data, open |-> FALSE]

\* The messages of executeQuery: only the one about the staging file names
\* anything, the file.
QueryLog(o, name) ==
    (IF o.bad # {} THEN {Logged("Failed to scan row", Str0)} ELSE {})
    \cup (IF o.out = "createErr" THEN {Logged("Failed to create fileName CSV file", name)}
          ELSE {})
    \cup (IF o.out = "colErr" THEN {Logged("Failed to get columns", Str0)} ELSE {})
    \cup (IF o.out = "queryErr" THEN {Logged("Failed to execute query", Str0)} ELSE {})
    \cup (IF o.iterErr THEN {Logged("Error occurred during row iteration", Str0)} ELSE {})

\* One iteration of the query loop of executeSQLQueries: the index record is
\* written, the staging file is named after fileCounter and filled.
MergeExecQuery ==
    /\ mode = "pipeline"
    /\ rev = "merge"
    /\ pc = "loop"
    /\ i < Len(queries)
    /\ \E o \in FileOutcomes(DBResult(queries[i + 1].Query)) :
         LET query == queries[i + 1]
             fileCounter == i + 1
             name == createFileName(fileCounter, query.Name)
             r == executeQuery(query.Query, o)
             buf == Append(idxBuf, <<Itoa(i + 1), query.Query, query.Notes>>)
         IN  /\ OutcomeOk(DBResult(query.Query), o)
             /\ faults + Cost(o) <= MaxFaults
             /\ outcomes' = Append(outcomes, o)
             /\ faults' = faults + Cost(o)
             /\ idxBuf' = buf
             /\ unitNames' = Append(unitNames, name)
             /\ log' = log \cup QueryLog(o, name)
             /\ rowsOpen' = r.open
             /\ IF r.fatal
                THEN /\ pc' = "fatal"
                     /\ \E part \in FlushedPrefixes(buf) :
                          files' = WriteFile(files, IndexFile(part))
                     /\ accepted' = IF o.out = "createErr" THEN accepted \cup {i + 1}
                                     ELSE accepted
                ELSE /\ pc' = pc
                     /\ files' = WriteFile(files, File(name, r.recs, i + 1))
                     /\ accepted' = accepted \cup {i + 1}
    /\ i' = i + 1
    /\ issued' = issued + 1
    /\ UNCHANGED <<mode, rev, queries, dbOpen, f, sortedFiles, m, saved, skipped,
                   configReads, connects, sanVars, renVars, mainVars,
                   dirVars, cfgVars>>

\* executeSQLQueries returning without the deferred Chdir.
MergeReturn_noChdir ==
    /\ mode = "pipeline"
    /\ rev = "merge"
    /\ pc = "loop"
    /\ i = Len(queries)
    /\ files' = WriteFile(files, IndexFile(idxBuf))
    /\ idxBuf' = <<>>
    /\ dbOpen' = FALSE
    /\ pc' = "merge"
    /\ UNCHANGED <<mode, rev, queries, i, f, sortedFiles, m, saved, log, faults,
                   unitNames, accepted, skipped, sanVars, renVars,
                   rowsOpen, configReads, connects, issued, mainVars,
                   outcomes, dirVars, cfgVars>>

\* executeSQLQueries returns: the deferred Flush, Close, Chdir and db.Close.
MergeReturn ==
    /\ mode = "pipeline"
    /\ rev = "merge"
    /\ pc = "loop"
    /\ i = Len(queries)
    /\ files' = WriteFile(files, IndexFile(idxBuf))
    /\ idxBuf' = <<>>
    /\ cwd' = originalDir
    /\ dbOpen' = FALSE
    /\ pc' = "merge"
    /\ UNCHANGED <<mode, rev, queries, i, f, sortedFiles, m, saved, log, faults,
                   unitNames, accepted, skipped, sanVars, renVars,
                   rowsOpen, configReads, connects, issued, mainVars,
                   outcomes, originalDir, savedIn, cfgVars>>

\* os.ReadDir("."): the entries sorted by file name.
RECURSIVE ReadDir(_)
ReadDir(names) ==
    IF names = {} THEN <<>>
    ELSE LET first == CHOOSE a \in names : \A b \in names \ {a} : StrLess(a, b)
         IN  <<first>> \o ReadDir(names \ {first})

\* less without the numeric prefixes: the names are compared as text.
less_lexical(a, b) == StrLess(a, b)

\* The comparison function handed to sort.SliceStable.
less(a, b) ==
    LET iPrefix == Atoi(BeforeUnderscore(a))
        jPrefix == Atoi(BeforeUnderscore(b))
    IN  IF iPrefix.ok /\ jPrefix.ok THEN iPrefix.n < jPrefix.n ELSE StrLess(a, b)

\* sort.SliceStable on at most 20 elements is an insertion sort: each element
\* moves left while it is less than its left neighbour.
RECURSIVE Insert(_, _)
Insert(sorted, x) ==
    IF sorted = <<>> \/ ~less(x, sorted[Len(sorted)]) THEN Append(sorted, x)
    ELSE Append(Insert(SubSeq(sorted, 1, Len(sorted) - 1), x), sorted[Len(sorted)])

RECURSIVE SliceStable(_)
SliceStable(q) ==
    IF q = <<>> THEN <<>>
    ELSE Insert(SliceStable(SubSeq(q, 1, Len(q) - 1)), q[Len(q)])

IsCsvName(name) == HasSuffix(name, DotCsv)

IsOtherFile(name) == name # ExecutedQueriesCsv

\* createExcelFromCSV up to the merge loop: the CSV files of the directory,
\* executed_queries.csv first, the others sorted by numeric prefix.
mergeOrder(dir) ==
    LET csvFiles == SelectSeq(ReadDir({g.name : g \in dir}), IsCsvName)
        otherFiles == SelectSeq(csvFiles, IsOtherFile)
    IN  <<ExecutedQueriesCsv>> \o SliceStable(otherFiles)

\* The working directory is remembered and changed to the temporary one.
\* When os.ReadDir fails the function returns, its deferred Chdir goes back,
\* and main logs that it is done and removes the temporary directory.
MergeList ==
    /\ mode = "pipeline"
    /\ rev = "merge"
    /\ pc = "merge"
    /\ originalDir' = cwd
    /\ \E ok \in BOOLEAN :
         IF ok
         THEN /\ cwd' = "temp"
              /\ sortedFiles' = mergeOrder(files)
              /\ f' = NewFile
              /\ m' = 0
              /\ pc' = "mergeloop"
              /\ UNCHANGED <<files, log, faults>>
         ELSE /\ faults < MaxFaults
              /\ faults' = faults + 1
              /\ cwd' = originalDir'
              /\ log' = log \cup {Logged("Error reading directory", Str0),
                                  Logged("Done Application", Str0)}
              /\ files' = {}
              /\ pc' = "done"
              /\ UNCHANGED <<sortedFiles, f, m>>
    /\ UNCHANGED <<mode, rev, queries, i, dbOpen, idxBuf, saved,
                   unitNames, accepted, skipped, sanVars, renVars,
                   rowsOpen, configReads, connects, issued, mainVars,
                   outcomes, savedIn, cfgVars>>

\* The body of the merge loop for a file that was opened and parsed: the
\* first file of the list renames Sheet1, every other one adds a sheet.
addSheet(wb, pos, csvFile, rows, src) ==
    LET name == mergeSheetName(csvFile)
        named == IF pos = 0 THEN SetSheetName(wb, Sheet1, name, src)
                 ELSE NewSheet(wb, name, src)
    IN  SetCells(named, name, rows)

\* One iteration of the merge loop: a file that cannot be opened or parsed is
\* reported and skipped.
MergeFile ==
    /\ mode = "pipeline"
    /\ rev = "merge"
    /\ pc = "mergeloop"
    /\ m < Len(sortedFiles)
    /\ LET csvFile == sortedFiles[m + 1]
           found == {g \in files : g.name = csvFile}
       IN  \E readable \in BOOLEAN :
             /\ ~readable => faults < MaxFaults
             /\ faults' = IF readable THEN faults ELSE faults + 1
             /\ IF readable /\ found # {} /\ csvReadAll((CHOOSE g \in found : TRUE).recs).ok
                THEN LET file == CHOOSE g \in found : TRUE
                     IN  /\ f' = addSheet(f, m, csvFile, csvReadAll(file.recs).rows, file.src)
                         /\ UNCHANGED <<skipped, log>>
                ELSE /\ skipped' = skipped \cup {csvFile}
                     /\ log' = log \cup {Logged("Error opening or reading file", csvFile)}
                     /\ UNCHANGED f
    /\ m' = m + 1
    /\ UNCHANGED <<mode, rev, pc, queries, i, dbOpen, files, idxBuf, sortedFiles, saved,
                   unitNames, accepted, sanVars, renVars,
                   rowsOpen, configReads, connects, issued, mainVars,
                   outcomes, dirVars, cfgVars>>

\* After the loop every file of the list is removed, and the working
\* directory is changed back to the remembered one.
MergeDelete ==
    /\ mode = "pipeline"
    /\ rev = "merge"
    /\ pc = "mergeloop"
    /\ m = Len(sortedFiles)
    /\ files' = {g \in files : \A k \in 1..Len(sortedFiles) : sortedFiles[k] # g.name}
    /\ cwd' = originalDir
    /\ pc' = "mergesave"
    /\ UNCHANGED <<mode, rev, queries, i, dbOpen, f, idxBuf, sortedFiles, m, saved, log,
                   faults, unitNames, accepted, skipped, sanVars, renVars,
                   rowsOpen, configReads, connects, issued, mainVars,
                   outcomes, originalDir, savedIn, cfgVars>>

\* The workbook is saved under its relative name, in the working directory;
\* a failed save is printed and createExcelFromCSV returns; its deferred Chdir
\* runs, and main logs that it is done and removes the temporary directory
\* with everything in it.
MergeSave ==
    /\ mode = "pipeline"
    /\ rev = "merge"
    /\ pc = "mergesave"
    /\ \E ok \in BOOLEAN :
         IF ok
         THEN /\ saved' = IF cwd = "temp" THEN NoWorkbook ELSE f
              /\ savedIn' = cwd
              /\ log' = log \cup {Logged("Done Application", Str0)}
              /\ faults' = faults
         ELSE /\ faults < MaxFaults
              /\ faults' = faults + 1
              /\ log' = log \cup {Logged("Error saving Excel file", Str0),
                                  Logged("Done Application", Str0)}
              /\ UNCHANGED <<saved, savedIn>>
    /\ cwd' = originalDir
    /\ files' = {}
    /\ pc' = "done"
    /\ UNCHANGED <<mode, rev, queries, i, dbOpen, f, idxBuf, sortedFiles, m,
                   unitNames, accepted, skipped, sanVars, renVars,
                   rowsOpen, configReads, connects, issued, mainVars,
                   outcomes, originalDir, cfgVars>>

NextMerge ==
    \/ MergeBegin
    \/ MergeExecQuery
    \/ MergeReturn
    \/ MergeList
    \/ MergeFile
    \/ MergeDelete
    \/ MergeSave

(***************************************************************************)
(* The csv revision: main of the first revision                            *)
(***************************************************************************)
\* main up to the query loop: connection, executed_queries.csv created and
\* its header written, catalog read.
CsvBegin ==
    /\ mode = "pipeline"
    /\ rev = "csv"
    /\ pc = "start"
    /\ dbOpen' = TRUE
    /\ configReads' = configReads + 1
    /\ connects' = connects + 1
    /\ files' = WriteFile(files, IndexFile(<<>>))
    /\ idxBuf' = <<IndexHeader>>
    /\ unitNames' = <<ExecutedQueriesCsv>>
    /\ pc' = "loop"
    /\ UNCHANGED <<mode, rev, queries, i, f, sortedFiles, m, saved, log, faults,
                   accepted, skipped, rowsOpen, issued, sanVars, renVars, mainVars,
                   outcomes, dirVars, cfgVars>>

renderRowCsv(row) == [c \in 1..Len(row) |-> renderCellCsv(row[c])]

\* executeQuery(db, query, fileName) of the csv revision under outcome o.
executeQueryCsv(stmt, o) ==
    LET res == DBResult(stmt)
        scanned == ScannedRows(res.rows, 1, o.nread, o.bad)
        data == [r \in 1..Len(scanned) |-> renderRowCsv(scanned[r])]
    IN  IF o.out = "queryErr" THEN [fatal |-> TRUE, recs |-> <<>>, open |-> FALSE]
        ELSE IF o.out = "createErr" THEN [fatal |-> TRUE, recs |-> <<>>, open |-> TRUE]
        ELSE IF o.out = "colErr" THEN [fatal |-> FALSE, recs |-> <<>>, open |-> FALSE]
        ELSE [fatal |-> FALSE, recs |-> <<res.cols>> \o data, open |-> FALSE]

\* One iteration of the query loop of main: the index record carries i+1,
\* the staging file is named after the loop index i.
CsvExecQuery ==
    /\ mode = "pipeline"
    /\ rev = "csv"
    /\ pc = "loop"
    /\ i < Len(queries)
    /\ \E o \in FileOutcomes(DBResult(queries[i + 1].Query)) :
         LET query == queries[i + 1]
             name == createFileName(i, query.Name)
             r == executeQueryCsv(query.Query, o)
             buf == Append(idxBuf, <<Itoa(i + 1), query.Query, query.Notes>>)
         IN  /\ OutcomeOk(DBResult(query.Query), o)
             /\ faults + Cost(o) <= MaxFaults
             /\ outcomes' = Append(outcomes, o)
             /\ faults' = faults + Cost(o)
             /\ idxBuf' = buf
             /\ unitNames' = Append(unitNames, name)
             /\ log' = log \cup QueryLog(o, name)
             /\ rowsOpen' = r.open
             /\ IF r.fatal
                THEN /\ pc' = "fatal"
                     /\ \E part \in FlushedPrefixes(buf) :
                          files' = WriteFile(files, IndexFile(part))
                     /\ accepted' = IF o.out = "createErr" THEN accepted \cup {i + 1}
                                     ELSE accepted
                ELSE /\ pc' = pc
                     /\ files' = WriteFile(files, File(name, r.recs, i + 1))
                     /\ accepted' = accepted \cup {i + 1}
    /\ i' = i + 1
    /\ issued' = issued + 1
    /\ UNCHANGED <<mode, rev, queries, dbOpen, f, sortedFiles, m, saved, skipped,
                   configReads, connects, sanVars, renVars, mainVars,
                   dirVars, cfgVars>>

\* main returns: "Done Application" is logged, then the deferred Flush,
\* Close and db.Close run.
CsvReturn ==
    /\ mode = "pipeline"
    /\ rev = "csv"
    /\ pc = "loop"
    /\ i = Len(queries)
    /\ files' = WriteFile(files, IndexFile(idxBuf))
    /\ idxBuf' = <<>>
    /\ dbOpen' = FALSE
    /\ log' = log \cup {Logged("Done Application", Str0)}
    /\ pc' = "done"
    /\ UNCHANGED <<mode, rev, queries, i, f, sortedFiles, m, saved, faults, unitNames,
                   accepted, skipped, sanVars, renVars,
                   rowsOpen, configReads, connects, issued, mainVars,
                   outcomes, dirVars, cfgVars>>

NextCsv == CsvBegin \/ CsvExecQuery \/ CsvReturn

(***************************************************************************)
(* One run of the pipeline, in any of the revisions                        *)
(***************************************************************************)
Init == InitRun

Next == NextDirect \/ NextMerge \/ NextCsv

Spec == Init /\ [][Next]_vars

(***************************************************************************)
(* main of the final revision: the prompt and the repeat loop              *)
(***************************************************************************)
\* Longest -duration enumerated, in hours.
MaxDuration == 2

Durations == (0 - 1)..MaxDuration

\* Values of -interval, in minutes: negative, absent, and positive ones that
\* divide the duration exactly, inexactly, or exceed it.
Intervals == {0 - 1, 0, 15, 25, 60, 61, 90, 181}

\* Lines typed at the prompt; the empty line also stands for a closed input.
Confirmations ==
    { <<"y", "e", "s">>, <<"Y", "E", "S">>, <<"Y", "e", "s">>,
      <<" ", "y", "e", "s">>, <<"y", "e", "s", " ", "n", "o">>,
      <<"y", "e", "s", "s">>, <<"y", "e", " ", "s">>, <<"y">>, <<"n", "o">>, Str0 }

MainCatalogs == {<<>>, <<EntryList[1]>>, <<EntryList[1], EntryList[2]>>}

RECURSIVE SkipSpace(_)
SkipSpace(line) ==
    IF line # Str0 /\ Head(line) = " " THEN SkipSpace(Tail(line)) ELSE line

RECURSIVE Token(_)
Token(line) ==
    IF line = Str0 \/ Head(line) = " " THEN Str0
    ELSE <<Head(line)>> \o Token(Tail(line))

\* fmt.Scanln(&confirmation): the first space-delimited word of the line; the
\* error returned for an empty line or for further words is not looked at.
Scanln(line) == Token(SkipSpace(line))

\* strings.ToLower
ToLowerString(t) == [k \in 1..Len(t) |-> ToLower(t[k])]

\* The test of main accepting any word that starts with y.
confirmed_anyY(line) ==
    LET word == ToLowerString(Scanln(line))
    IN  word # Str0 /\ word[1] = "y"

\* The test of main on the line typed: strings.ToLower(confirmation) == "yes".
confirmed(line) == ToLowerString(Scanln(line)) = <<"y", "e", "s">>

\* The branch test without the duration.
repeating_noDuration == interval > 0

\* The branch of main that repeats.
repeating == interval > 0 /\ duration > 0

\* totalIterations rounded up.
totalIterations_roundedUp == (duration * 60 + interval - 1) \div interval

\* totalIterations of main; Go's integer division of positive numbers.
totalIterations == (duration * 60) \div interval

InitMain ==
    /\ mode = "main"
    /\ rev = "direct"
    /\ pc = "prompt"
    /\ interval \in Intervals
    /\ duration \in Durations
    /\ confirmation \in Confirmations
    /\ queries \in MainCatalogs
    /\ iteration = 0
    /\ runs = 0
    /\ sleeps = 0
    /\ i = 0
    /\ dbOpen = FALSE
    /\ f = <<>>
    /\ files = {}
    /\ idxBuf = <<>>
    /\ sortedFiles = <<>>
    /\ m = 0
    /\ saved = NoWorkbook
    /\ log = {}
    /\ faults = 0
    /\ unitNames = <<>>
    /\ accepted = {}
    /\ skipped = {}
    /\ rowsOpen = FALSE
    /\ configReads = 0
    /\ connects = 0
    /\ issued = 0
    /\ outcomes = <<>>
    /\ SanitizeIdle
    /\ RenderIdle
    /\ DirIdle
    /\ ConfigIdle

\* main from the prompt to the first call of executeSQLQueriesAndCreateExcel:
\* it returns when the line is not accepted, and when the repeat loop has no
\* iteration to run.
MainConfirm ==
    /\ mode = "main"
    /\ pc = "prompt"
    /\ pc' = IF ~confirmed(confirmation) THEN "exited"
             ELSE IF repeating /\ ~(0 < totalIterations) THEN "exited"
             ELSE "start"
    /\ UNCHANGED <<mode, rev, sanVars, renVars, runVars, mainVars, dirVars, cfgVars>>

\* executeSQLQueriesAndCreateExcel has returned: in the repeat loop main
\* sleeps unless this was the last iteration, and calls it again; the next
\* call starts with its own locals and writes its own workbook file.
MainNext ==
    /\ mode = "main"
    /\ pc = "done"
    /\ IF repeating /\ iteration + 1 < totalIterations
       THEN /\ sleeps' = sleeps + 1
            /\ iteration' = iteration + 1
            /\ pc' = "start"
            /\ i' = 0
            /\ f' = <<>>
            /\ saved' = NoWorkbook
            /\ unitNames' = <<>>
            /\ accepted' = {}
            /\ outcomes' = <<>>
       ELSE /\ iteration' = IF repeating THEN iteration + 1 ELSE iteration
            /\ pc' = "exited"
            /\ UNCHANGED <<sleeps, i, f, saved, unitNames, accepted, outcomes>>
    /\ UNCHANGED <<mode, rev, queries, dbOpen, files, idxBuf, sortedFiles, m, log, faults,
                   skipped, rowsOpen, configReads, connects, issued, sanVars, renVars,
                   interval, duration, confirmation, runs,
                   dirVars, cfgVars>>

NextMain == MainConfirm \/ NextDirect \/ MainNext

SpecMain == InitMain /\ [][NextMain]_vars

(***************************************************************************)
(* getSQLServerConfig of the final revision                                *)
(***************************************************************************)
\* Longest TRUSTED value enumerated exhaustively.
MaxTrustedLen == 2

TrustedChars == {"t", "T", "1", "0", "f", "x"}

\* Values of TRUSTED: absent, every short text, and the words of either case.
TrustedValues ==
    {Missing}
    \cup StringsUpTo(TrustedChars, MaxTrustedLen)
    \cup { <<"t", "r", "u", "e">>, <<"T", "R", "U", "E">>, <<"T", "r", "u", "e">>,
           <<"f", "a", "l", "s", "e">>, <<"F", "A", "L", "S", "E">>,
           <<"F", "a", "l", "s", "e">>, <<"y", "e", "s">>, <<"t", "R", "U", "E">> }

\* Values of a required key: absent, or a text with a space around it.
KeyValues == {Missing, <<" ", "v">>}

PropertyFiles ==
    {Properties(l, u, h, p, n, usr, pw, t) :
        l \in BOOLEAN, u \in {Missing, Str0, <<" ">>, <<"u">>},
        h \in KeyValues, p \in {<<"1">>}, n \in KeyValues, usr \in {<<"v">>},
        pw \in {<<"v">>}, t \in TrustedValues}

RECURSIVE TrimLeft(_)
TrimLeft(t) == IF t # Str0 /\ Head(t) = " " THEN TrimLeft(Tail(t)) ELSE t

RECURSIVE TrimRight(_)
TrimRight(t) ==
    IF t # Str0 /\ t[Len(t)] = " " THEN TrimRight(SubSeq(t, 1, Len(t) - 1)) ELSE t

\* strings.TrimSpace
TrimSpace(t) == TrimRight(TrimLeft(t))

\* The texts strconv.ParseBool accepts.
TrueTexts ==
    { <<"1">>, <<"t">>, <<"T">>, <<"T", "R", "U", "E">>, <<"t", "r", "u", "e">>,
      <<"T", "r", "u", "e">> }

FalseTexts ==
    { <<"0">>, <<"f">>, <<"F">>, <<"F", "A", "L", "S", "E">>,
      <<"f", "a", "l", "s", "e">>, <<"F", "a", "l", "s", "e">> }

\* strconv.ParseBool
ParseBool(t) == [ok |-> t \in TrueTexts \cup FalseTexts, b |-> t \in TrueTexts]

\* sqlProperties.GetString(key, def)
GetString(val, def) == IF val = Missing THEN def ELSE val

\* The keys read with sqlProperties.MustGet, which ends the process with
\* log.Fatal when the key is absent.
RequiredKeys(p) == <<p.DB_HOST, p.DB_PORT, p.DB_NAME, p.USER, p.PASSWORD, p.TRUSTED>>

\* getSQLServerConfig(propFile) on the properties p: whether log.Fatal ends
\* the process, and the SQLServerConfig returned otherwise.
getSQLServerConfig(p) ==
    LET userDefined == TrimSpace(GetString(p.USER_DEFINED, Str0))
        absent == {k \in 1..Len(RequiredKeys(p)) : RequiredKeys(p)[k] = Missing}
        trusted == ParseBool(p.TRUSTED)
    IN  IF ~p.loaded THEN [fatal |-> TRUE, config |-> NoConfig]
        ELSE IF userDefined # Str0
        THEN [fatal |-> FALSE,
              config |-> [returned |-> TRUE, UserDefined |-> userDefined,
                          SQLServerHost |-> Str0, SQLServerDB |-> Str0, Trusted |-> FALSE]]
        ELSE IF absent # {} THEN [fatal |-> TRUE, config |-> NoConfig]
        ELSE [fatal |-> FALSE,
              config |-> [returned |-> TRUE, UserDefined |-> Str0,
                          SQLServerHost |-> TrimSpace(p.DB_HOST),
                          SQLServerDB |-> TrimSpace(p.DB_NAME),
                          Trusted |-> IF trusted.ok THEN trusted.b ELSE FALSE]]

InitConfig ==
    /\ mode = "config"
    /\ rev = "direct"
    /\ pc = "call"
    /\ props \in PropertyFiles
    /\ sqlServerConfig = NoConfig
    /\ SanitizeIdle
    /\ RenderIdle
    /\ RunIdle
    /\ MainIdle
    /\ DirIdle

\* readSQLConfig calls getSQLServerConfig on the properties file.
LoadConfig ==
    /\ mode = "config"
    /\ pc = "call"
    /\ sqlServerConfig' = getSQLServerConfig(props).config
    /\ pc' = IF getSQLServerConfig(props).fatal THEN "fatal" ELSE "loaded"
    /\ UNCHANGED <<mode, rev, props, sanVars, renVars, runVars, mainVars, dirVars>>

NextConfig == LoadConfig

SpecConfig == InitConfig /\ [][NextConfig]_vars

\* TRUSTED is the only thing the properties file lacks: it loads, no override
\* connection string is set and the other required keys are present.
OnlyTrustedAtFault ==
    /\ props.loaded
    /\ TrimSpace(GetString(props.USER_DEFINED, Str0)) = Str0
    /\ Missing \notin {props.DB_HOST, props.DB_PORT, props.DB_NAME, props.USER,
                       props.PASSWORD}

\* C25: when TRUSTED is missing or is not a boolean text, and nothing else is
\* wrong with the properties, getSQLServerConfig returns a configuration with
\* Trusted false and does not end the process.
C25_TrustedDefaultsFalse ==
    (mode = "config" /\ pc # "call" /\ OnlyTrustedAtFault
        /\ props.TRUSTED \notin TrueTexts \cup FalseTexts) =>
        /\ pc = "loaded"
        /\ sqlServerConfig.returned
        /\ sqlServerConfig.Trusted = FALSE

(***************************************************************************)
(* Properties of one run (Spec)                                            *)
(***************************************************************************)
Produced == mode = "pipeline" /\ saved # NoWorkbook

SrcOf(wb) == [k \in 1..Len(wb) |-> wb[k].src]

\* The elements of a set of integers in ascending order.
RECURSIVE Ascending(_)
Ascending(S) ==
    IF S = {} THEN <<>>
    ELSE LET least == CHOOSE a \in S : \A b \in S : a <= b
         IN  <<least>> \o Ascending(S \ {least})

UnitPresent(k) ==
    /\ k \in accepted
    /\ rev = "merge" =>
         /\ unitNames[k + 1] \notin skipped
         /\ Len(mergeSheetName(unitNames[k + 1])) <= MaxSheetNameLen

IndexPresent == ~(rev = "merge" /\ ExecutedQueriesCsv \in skipped)

NumericPrefix(name) == Atoi(BeforeUnderscore(name))

\* The rows of an index unit are those of the catalog, in catalog order.
IndexRowsMatch(rows) ==
    \A r \in 2..Len(rows) :
        /\ r - 1 <= Len(queries)
        /\ rows[r] = <<Itoa(r - 1), queries[r - 1].Query, queries[r - 1].Notes>>

\* C2: in every revision the index row with Sr.No i holds the statement and
\* the notes of catalog entry i, and the data unit (sheet or staging file)
\* whose numeric name prefix is i holds the result of catalog entry i.
C2_CatalogOrder ==
    mode = "pipeline" =>
        /\ \A g \in files :
              IF g.src = 0 THEN IndexRowsMatch(g.recs)
              ELSE NumericPrefix(g.name) = [ok |-> TRUE, n |-> g.src]
        /\ \A k \in 1..Len(f) :
              IF f[k].src = 0 THEN IndexRowsMatch(f[k].rows)
              ELSE f[k].src > 0 => NumericPrefix(f[k].name) = [ok |-> TRUE, n |-> f[k].src]

\* C3: the merged workbook has the index unit executed_queries as its first
\* sheet, followed by the data units in ascending order of their numeric
\* name prefix.
C3_MergeOrder ==
    (Produced /\ rev = "merge") =>
        /\ saved[1].name = ExecutedQueriesSheet
        /\ \A k \in 2..Len(saved) : NumericPrefix(saved[k].name).ok
        /\ \A j, k \in 2..Len(saved) :
              j < k => NumericPrefix(saved[j].name).n < NumericPrefix(saved[k].name).n

\* C4: the names of the output units of one run, the index unit and the data
\* unit of every catalog entry, are pairwise distinct.
C4_UnitNamesDistinct ==
    mode = "pipeline" =>
        \A j, k \in 1..Len(unitNames) : j # k => unitNames[j] # unitNames[k]

C4_Witness ==
    /\ mode = "pipeline"
    /\ rev = "direct"
    /\ Len(queries) = 2
    /\ Len(unitNames) = 3
    /\ queries[1].Name = queries[2].Name
    /\ Len(queries[1].Name) >= MaxSheetNameLen
    /\ Len(unitNames[2]) = MaxSheetNameLen

(***************************************************************************)
(* Properties of the name sanitizer (SpecSanitize)                         *)
(***************************************************************************)
IsWordChar(c) == c \in WordChars

\* The raw name with each space turned into an underscore and only the
\* characters of [A-Za-z0-9_] kept.
Cleaned(name) == SelectSeq(ReplaceAll(name, " ", "_"), IsWordChar)

Prefix(idx) == Itoa(idx) \o <<"_">>

Min(a, b) == IF a < b THEN a ELSE b

Sanitized == mode = "sanitize" /\ pc \in {"reapply", "returned"}

ValidSheetName(s) ==
    /\ Len(s) <= MaxSheetNameLen
    /\ \A k \in 1..Len(s) : s[k] \notin ExcelInvalidChars

\* C5: every worksheet name generated for a catalog entry, by createSheetName
\* in the direct revision and from the staging file name in the merge
\* revision, has at most 31 characters and none of \ / ? * [ ] :
C5_SheetNamesValid ==
    Sanitized => /\ ValidSheetName(sheetName)
                 /\ ValidSheetName(mergeSheetName(fileName))

\* C6: when "<position>_" followed by the sanitized name is longer than 31
\* characters, createSheetName returns exactly 31 characters: the intact
\* prefix followed by the leading characters of the sanitized name; when the
\* prefix alone has 31 characters or more it returns the decimal position
\* cut to 31 characters.
C6_Truncation ==
    (Sanitized /\ Len(Prefix(index) \o Cleaned(queryName)) > MaxSheetNameLen) =>
        /\ Len(Prefix(index)) < MaxSheetNameLen =>
              /\ Len(sheetName) = MaxSheetNameLen
              /\ SubSeq(sheetName, 1, Len(Prefix(index))) = Prefix(index)
              /\ \A k \in 1..(MaxSheetNameLen - Len(Prefix(index))) :
                    sheetName[Len(Prefix(index)) + k] = Cleaned(queryName)[k]
        /\ Len(Prefix(index)) >= MaxSheetNameLen =>
              sheetName = SubSeq(Itoa(index), 1, Min(MaxSheetNameLen, Len(Itoa(index))))

C6_Witness ==
    /\ Sanitized
    /\ index >= 10
    /\ Len(Prefix(index) \o Cleaned(queryName)) > MaxSheetNameLen
    /\ Len(sheetName) = MaxSheetNameLen
    /\ Len(Cleaned(queryName)) < Len(queryName)

\* C7 as stated: the sanitizer applied to its own output, with the same
\* position, returns that output unchanged.
C7_Idempotent ==
    (mode = "sanitize" /\ pc = "returned") =>
        /\ reSheetName = sheetName
        /\ reFileName = fileName

\* C7 as amended: applied to its own output with the same position, the
\* sanitizer puts the position prefix in front once more: the worksheet
\* variant returns "<p>_" followed by the previous output, cut to 31
\* characters; the file variant returns "<p>_", the previous output without
\* its dot, and ".csv".
C7_Reapplied ==
    (mode = "sanitize" /\ pc = "returned") =>
        /\ reSheetName =
              SubSeq(Prefix(index) \o sheetName, 1,
                     Min(MaxSheetNameLen, Len(Prefix(index)) + Len(sheetName)))
        /\ reFileName =
              Prefix(index) \o SubSeq(fileName, 1, Len(fileName) - Len(DotCsv))
                 \o <<"c", "s", "v">> \o DotCsv

C7_Witness ==
    /\ mode = "sanitize"
    /\ pc = "returned"
    /\ reSheetName # sheetName
    /\ Len(sheetName) = MaxSheetNameLen
    /\ Len(reSheetName) = MaxSheetNameLen
    /\ reFileName # fileName

\* C8: when the prefixed sanitized name fits in 31 characters, the worksheet
\* variant returns "<p>_" followed by the name with each space replaced by an
\* underscore and every character outside [A-Za-z0-9_] removed, and the file
\* variant returns that string followed by ".csv"; (1, "Sample Query Name!")
\* gives "1_Sample_Query_Name" and "1_Sample_Query_Name.csv".
C8_FittingName ==
    (Sanitized /\ Len(Prefix(index) \o Cleaned(queryName)) <= MaxSheetNameLen) =>
        /\ sheetName = Prefix(index) \o Cleaned(queryName)
        /\ fileName = sheetName \o DotCsv
        /\ Atoi(BeforeUnderscore(sheetName)) = [ok |-> TRUE, n |-> index]
        /\ (index = 1 /\ queryName = SampleQueryName) =>
              sheetName = <<"1", "_", "S", "a", "m", "p", "l", "e", "_", "Q", "u",
                            "e", "r", "y", "_", "N", "a", "m", "e">>

C8_Witness ==
    /\ Sanitized
    /\ index = 1
    /\ queryName = SampleQueryName
    /\ fileName = <<"1", "_", "S", "a", "m", "p", "l", "e", "_", "Q", "u", "e", "r",
                    "y", "_", "N", "a", "m", "e", ".", "c", "s", "v">>

(***************************************************************************)
(* Properties of the value rendering (SpecRender)                          *)
(***************************************************************************)
\* C30: whenever createSheetName takes the truncation branch with
\* maxNameLength > 0, maxNameLength is less than the length of the sanitized
\* name, so the slice is in range; and the function has returned a name of
\* at most 31 characters for every input.
C30_SliceInRange ==
    mode = "sanitize" =>
        /\ (Len(Prefix(index)) + Len(Cleaned(queryName)) > MaxSheetNameLen
              /\ maxNameLength(index) > 0) =>
                 maxNameLength(index) < Len(Cleaned(queryName))
        /\ pc # "call" => (sheetName # None /\ Len(sheetName) <= MaxSheetNameLen)

C30_Witness ==
    /\ mode = "sanitize"
    /\ pc = "reapply"
    /\ Len(Prefix(index)) + Len(Cleaned(queryName)) = MaxSheetNameLen + 1
    /\ maxNameLength(index) = Len(Cleaned(queryName)) - 1
    /\ Len(sheetName) = MaxSheetNameLen

\* C9: in every revision a database NULL is rendered as the text NULL.
C9_NullIsNULL ==
    (mode = "render" /\ pc = "rendered" /\ value.kind = "nil") =>
        rendered = <<"N", "U", "L", "L">>

\* C10: in the revisions that fill worksheet cells (merge and direct), the
\* text rendered for a non-NULL value holds no line feed and no carriage
\* return, and is the text of the value with each line feed and each carriage
\* return replaced by one space: same length, every other character as it was.
C10_NewlinesReplaced ==
    (mode = "render" /\ pc = "rendered" /\ rev \in {"merge", "direct"}
        /\ value.kind # "nil") =>
        /\ \A k \in 1..Len(rendered) : rendered[k] \notin {LF, CR}
        /\ value.kind \in {"string", "bytes"} =>
              /\ Len(rendered) = Len(value.s)
              /\ \A k \in 1..Len(value.s) :
                    rendered[k] = IF value.s[k] \in {LF, CR} THEN " " ELSE value.s[k]
        /\ value.kind = "int" => Atoi(rendered) = [ok |-> TRUE, n |-> value.n]

C10_Witness ==
    /\ mode = "render"
    /\ pc = "rendered"
    /\ rev = "merge"
    /\ value.kind = "bytes"
    /\ \E j, k \in 1..Len(value.s) : value.s[j] = LF /\ value.s[k] = CR
    /\ rendered # value.s

\* The positions whose statement db.Query rejected.
Rejected == (1..i) \ accepted

\* C14: a catalog entry whose statement fails to execute does not abort the
\* run: the failure is logged with the entry's name, the run ends only after
\* every later entry was executed, only a failed save makes it end with a
\* fatal error, and when it ends normally the workbook is saved and holds the
\* sheet of every later entry whose statement was accepted, populated unless
\* a failure of that entry was logged too.
C14_FailureDoesNotAbort ==
    mode = "pipeline" =>
        \A k \in Rejected :
            /\ Logged("Failed to execute query", queries[k].Name) \in log
            /\ pc \in {"done", "fatal"} => i = Len(queries)
            /\ pc = "fatal" => Logged("Error saving Excel file", Str0) \in log
            /\ (pc = "done" /\ rev # "csv") =>
                 /\ saved # NoWorkbook
                 /\ \A j \in accepted :
                      j > k => \E n \in 1..Len(saved) :
                                  /\ saved[n].src = j
                                  /\ \/ saved[n].rows # <<>>
                                     \/ Logged("Failed to execute query", queries[j].Name)
                                          \in log

\* The rows a data unit should hold for catalog entry k: the column names,
\* then the rendered cells of every row of the result, in result order.
ExpectedRows(k) ==
    LET res == DBResult(queries[k].Query)
    IN  <<res.cols>>
           \o [r \in 1..Len(res.rows) |->
                 [c \in 1..Len(res.rows[r]) |-> renderCell(res.rows[r][c])]]

\* The sheet of workbook wb made for catalog entry k holds exactly rows.
SheetHolds(wb, k, rows) == \E n \in 1..Len(wb) : wb[n].src = k /\ wb[n].rows = rows

\* C15: in a run without any failure, so that every row of every result is
\* scanned, the data unit of each executed entry whose result has columns
\* holds the column names as its first row and the rendered result rows
\* after it, and nothing else: the sheet of the workbook in the direct
\* revision, the sheet of the saved workbook in the merge revision.
C15_UnitContents ==
    (mode = "pipeline" /\ faults = 0) =>
        \A k \in 1..i :
            DBResult(queries[k].Query).cols # <<>> =>
                /\ rev = "direct" => SheetHolds(f, k, ExpectedRows(k))
                /\ (rev = "merge" /\ Produced) => SheetHolds(saved, k, ExpectedRows(k))

\* C16: the index unit of a saved workbook holds the header row (Sr.No,
\* Query, Query Notes) and exactly one row per catalog entry, in catalog
\* order: the 1-based position, the raw statement text and the notes.
C16_IndexUnit ==
    (Produced /\ rev \in {"direct", "merge"}) =>
        /\ saved[1].src = 0
        /\ Len(saved[1].rows) = Len(queries) + 1
        /\ saved[1].rows[1] = IndexHeader
        /\ \A k \in 1..Len(queries) :
              saved[1].rows[k + 1] = <<Itoa(k), queries[k].Query, queries[k].Notes>>

\* C18: when a run of the final revision has ended, by returning or by a
\* fatal error, the connection it opened has been closed with db.Close().
C18_ConnectionClosed ==
    (mode = "pipeline" /\ rev = "direct" /\ pc \in {"done", "fatal"}) => ~dbOpen

\* C19: after the query-execution operation has ended for a catalog entry,
\* whichever way it ended, the result cursor it obtained has been closed; so
\* none is open when the next entry's query is issued.
C19_CursorReleased ==
    (mode = "pipeline" /\ rev \in {"direct", "merge"}) => ~rowsOpen

\* C20: in the merge revision a staging file that has been deleted has its
\* data in a workbook that was saved before.
C20_DeletedAfterSave ==
    (mode = "pipeline" /\ rev = "merge" /\ pc \in {"mergesave", "done"}) =>
        \A k \in 1..Len(sortedFiles) :
            (\A g \in files : g.name # sortedFiles[k]) => saved # NoWorkbook

\* The merge ran to its end and the workbook was written.
Merged == mode = "pipeline" /\ rev = "merge" /\ pc = "done" /\ saved # NoWorkbook

NotSkipped(csvFile) == csvFile \notin skipped

NotDefaultSheet(sheet) == sheet.src # 0 - 1

\* The names of the sheets of a workbook that were made from staging files.
MergedSheetNames(wb) ==
    LET made == SelectSeq(wb, NotDefaultSheet)
    IN  [k \in 1..Len(made) |-> made[k].name]

\* C21: a staging file the merge could not open or parse is reported, and
\* every other staging file of the merge list still has its sheet in the
\* saved workbook, in the order of the list.
C21_SkipDoesNotAbort ==
    (Merged /\ skipped # {}) =>
        /\ \A csvFile \in skipped :
              Logged("Error opening or reading file", csvFile) \in log
        /\ LET kept == SelectSeq(sortedFiles, NotSkipped)
           IN  MergedSheetNames(saved) = [k \in 1..Len(kept) |-> mergeSheetName(kept[k])]

\* C22: after a failure to save the workbook the run has ended with a fatal
\* error, and the program has reported neither that the workbook was created
\* nor that the application is done.
C22_SaveFailureFatal ==
    (mode = "pipeline" /\ rev \in {"direct", "merge"}
        /\ Logged("Error saving Excel file", Str0) \in log) =>
        /\ pc = "fatal"
        /\ Logged("Excel file created successfully", Str0) \notin log
        /\ Logged("Done Application", Str0) \notin log

\* The execution of entry k was reported as failed by executeQueryToExcel.
ReportedFailed(k) == outcomes[k].out # "ok" \/ outcomes[k].iterErr

\* C23: in the final revision, the saved workbook has, for an entry whose
\* execution was reported as failed, no sheet or a sheet with at most the
\* header row.
C23_FailedEntrySheet ==
    (Produced /\ rev = "direct") =>
        \A k \in 1..Len(outcomes) :
            ReportedFailed(k) =>
                \A n \in 1..Len(saved) : saved[n].src = k => Len(saved[n].rows) <= 1

\* The rows of the result of entry k that were read and scanned, rendered,
\* in result order.
KeptRows(k) ==
    LET res == DBResult(queries[k].Query)
        kept == Ascending({j \in 1..outcomes[k].nread : j \notin outcomes[k].bad})
    IN  [n \in 1..Len(kept) |->
            [c \in 1..Len(res.rows[kept[n]]) |-> renderCell(res.rows[kept[n]][c])]]

\* The query of entry k got as far as its rows, and its result has columns.
RowsWritten(k) ==
    outcomes[k].out = "ok" /\ DBResult(queries[k].Query).cols # <<>>

\* C24: a row whose scan fails is logged and left out: the unit written for
\* the entry, the sheet of the final revision and the staging file of the
\* merge revision, holds the column names and then exactly the other rows
\* that were read, in result order, in consecutive rows from row 2 on.
C24_ScanFailureSkipsRow ==
    (mode = "pipeline" /\ rev \in {"direct", "merge"}) =>
        \A k \in 1..Len(outcomes) :
            RowsWritten(k) =>
                LET expected == <<DBResult(queries[k].Query).cols>> \o KeptRows(k)
                IN  /\ outcomes[k].bad # {} => Logged("Failed to scan row", Str0) \in log
                    /\ rev = "direct" => SheetHolds(f, k, expected)
                    /\ \A g \in files : g.src = k => g.recs = expected

C24_Witness ==
    /\ mode = "pipeline"
    /\ rev = "direct"
    /\ Len(outcomes) = 1
    /\ outcomes[1] = [out |-> "ok", nread |-> 2, bad |-> {1}, iterErr |-> FALSE]
    /\ queries[1].Query = StmtAB
    /\ Len(f) = 2
    /\ f[2].rows = << << <<"A">>, <<"B">> >>, << <<"c", " ">>, <<"-", "3">> >> >>

\* The positions whose statement db.Query accepted.
AcceptedByDb == {k \in 1..Len(outcomes) : outcomes[k].out # "queryErr"}

\* C27: in the final revision a saved workbook has one sheet more than the
\* number of entries whose statement the database accepted: such an entry
\* always has its sheet, an entry whose statement was rejected has none.
C27_SheetPerAcceptedStatement ==
    (Produced /\ rev = "direct") =>
        /\ Len(saved) = 1 + Cardinality(AcceptedByDb)
        /\ \A k \in 1..Len(queries) :
              k \in AcceptedByDb <=> \E n \in 1..Len(saved) : saved[n].src = k

C27_Witness ==
    /\ Produced
    /\ rev = "direct"
    /\ Len(queries) = 2
    /\ outcomes[1].out = "queryErr"
    /\ outcomes[2].out = "colErr"
    /\ Len(saved) = 2
    /\ saved[2].src = 2
    /\ saved[2].rows = <<>>

\* C28: every sheet of the workbook saved by the merge revision was made from
\* the index file or from a staging file; the default sheet Sheet1 is gone.
C28_NoDefaultSheet ==
    Merged => \A n \in 1..Len(saved) : saved[n].src # 0 - 1 /\ saved[n].name # Sheet1

Exited == mode = "main" /\ pc = "exited"

Accepted == ToLowerString(Scanln(confirmation)) = <<"y", "e", "s">>

\* floor(duration*60 / interval) for positive interval and duration.
FloorIterations ==
    CHOOSE n \in 0..(duration * 60) :
        n * interval <= duration * 60 /\ duration * 60 < (n + 1) * interval

\* The database and the artifacts were not touched by the process.
Untouched ==
    /\ runs = 0
    /\ configReads = 0
    /\ connects = 0
    /\ issued = 0
    /\ ~dbOpen
    /\ f = <<>>
    /\ saved = NoWorkbook

\* C11: with interval > 0 and duration > 0 the pipeline runs exactly
\* floor(duration*60 / interval) times when main returns, never more often
\* before, and main has slept exactly once between every two consecutive
\* runs and not after the last one: while a run is pending after a sleep
\* there are as many sleeps as runs, otherwise one sleep fewer than runs.
C11_RepeatCount ==
    (mode = "main" /\ interval > 0 /\ duration > 0) =>
        /\ runs <= FloorIterations
        /\ sleeps = IF pc = "start" THEN runs ELSE Max(runs - 1, 0)
        /\ (Exited /\ Accepted) => runs = FloorIterations

C11_Witness ==
    /\ Exited
    /\ interval = 15
    /\ duration = 2
    /\ runs = 8
    /\ sleeps = 7

\* C12: when interval is 0 or duration is 0 main never sleeps, runs the
\* pipeline at most once, and has run it exactly once when it returns after
\* the operator confirmed.
C12_RunOnce ==
    (mode = "main" /\ (interval = 0 \/ duration = 0)) =>
        /\ sleeps = 0
        /\ runs <= 1
        /\ (Exited /\ Accepted) => runs = 1

C12_Witness ==
    /\ Exited
    /\ interval = 0
    /\ duration = MaxDuration
    /\ runs = 1
    /\ sleeps = 0
    /\ saved # NoWorkbook

\* C13: when interval or duration is negative no run starts: no connection
\* is opened, no query is executed and no artifact is written.
C13_NegativeRejected ==
    (mode = "main" /\ (interval < 0 \/ duration < 0)) => Untouched

\* C17 as stated: unless the line typed is exactly yes, no configuration is
\* read, no connection is opened and no query executes.
C17_LiteralYes ==
    (mode = "main" /\ confirmation # <<"y", "e", "s">>) => Untouched

\* C17 as amended: unless the first word of the line typed is yes in any
\* letter case, no configuration is read, no connection is opened and no
\* query executes, and main returns.
C17_ConfirmedFirst ==
    (mode = "main" /\ ~Accepted) => (Untouched /\ pc \in {"prompt", "exited"})

C17_Witness ==
    /\ Exited
    /\ confirmation = <<"y", "e", "s", "s">>
    /\ Untouched

\* C26: with interval > 0 and duration > 0 the pipeline has run at least
\* once when main returns after the operator confirmed, also when the
\* interval is longer than the duration.
C26_RunsAtLeastOnce ==
    (Exited /\ Accepted /\ interval > 0 /\ duration > 0) => runs >= 1

====
